---------------------------- MODULE Spec2Model ----------------------------
(***************************************************************************)
(* A model of avionics_monitor.py: the sensor simulator                    *)
(* (SensorSimulator), the BITE classifier (bite_check), the CSV fault log  *)
(* (append_log_csv) and the callbacks of AvionicsMonitorApp that drive     *)
(* them (__init__, apply_fault, clear_faults, run_bite_all, update_loop).  *)
(*                                                                         *)
(* Numbers.  TLC has only integers, so every sensor quantity is held on a  *)
(* grid of its own: S1 in steps of 10, S2 in steps of 0.25, S3 in steps of *)
(* 0.1 (PerTen is the number of grid steps in 10.0).  On these grids the   *)
(* nominal value, the tolerance and 0.1*tol are whole numbers; the noise   *)
(* level 0.005*|nominal|+0.1 is rounded down (5.01 -> 5, 5.4 -> 5, 1 -> 1).*)
(* Time is in whole seconds.  Comparisons with 0.5*tol and 1.5*tol and     *)
(* with the standard deviation are cross-multiplied, so they are exact.    *)
(*                                                                         *)
(* Randomness.  The module `random` is one global generator: every gauss,  *)
(* random and choice call reads the next numbers of one stream.  The model *)
(* draws the stream at Init from the small set Seeds; slot i of a seed     *)
(* holds what one call of step reads: z (the baseline gauss draw, in       *)
(* units of sigma), z2 (the extra gauss draw of the noisy mode) and spike  *)
(* (0 when random() >= 0.02, else the choice of 5 or -5).                  *)
(***************************************************************************)
EXTENDS Integers, Sequences, FiniteSets, TLC

VARIABLES
    sensors,       \* self.sensors: sensor id -> SensorSimulator fields
    data_buffers,  \* self.data_buffers: sensor id -> sequence of <<t, value>>
    log_csv,       \* the file LOG_CSV: [exists, rows]
    app,           \* the application object: running, scheduled, start_time, last_update
    now,           \* time.time(), in seconds
    rng,           \* the generator of module random: [seed, pos]
    last_code,     \* sensor id -> code of the last bite_check made for it
    tick,          \* what the last update_loop call did: [processed, failed]
    hist,          \* history counters the properties are stated with
    op             \* the operation that produced this state

vars == <<sensors, data_buffers, log_csv, app, now, rng, last_code, tick, hist, op>>

---------------------------------------------------------------------------
(* Program constants *)

PLOT_WINDOW_SEC == 30

WINDOW_LEN == 10

STUCK_MIN_SAMPLES == 6

RANGE_FACTOR == 5

OUT_OF_RANGE_FACTOR == 10

Roster == <<"S1", "S2", "S3">>

SensorIds == {"S1", "S2", "S3"}

SENSORS ==
    [S1 |-> [nominal |-> 10000, tol |-> 200],
     S2 |-> [nominal |-> 250,   tol |-> 15],
     S3 |-> [nominal |-> 0,     tol |-> 2]]

PerTen == [S1 |-> 1, S2 |-> 40, S3 |-> 100]

FaultChoices == {"none", "spike", "noisy", "drift", "stuck", "out_of_range"}

Codes == {"E01", "E02", "E03", "E04", "E05", "OK"}

Header == <<"sensor_id", "code">>

---------------------------------------------------------------------------
(* Bounds of the model *)

MaxSteps == 12

MaxCmds == 2

MaxTicks == 2

MaxBites == 1

MaxAppCmds == 1

---------------------------------------------------------------------------
(* Arithmetic helpers *)

Abs(x) == IF x < 0 THEN -x ELSE x

RECURSIVE SumSeq(_)
SumSeq(w) == IF w = <<>> THEN 0 ELSE Head(w) + SumSeq(Tail(w))

RECURSIVE SumSq(_)
SumSq(w) == IF w = <<>> THEN 0 ELSE Head(w) * Head(w) + SumSq(Tail(w))

\* The window moved so that its first sample is 0: np.std and the adjacent
\* differences do not change, and the squares stay small.
Shifted(w) == [i \in 1..Len(w) |-> w[i] - w[1]]

\* n^2 * variance of the window: np.std(w)^2 = VarN2(w) / Len(w)^2.
VarN2(w) == Len(w) * SumSq(Shifted(w)) - SumSeq(Shifted(w)) * SumSeq(Shifted(w))

\* np.std(recent) < 1e-6.  On the grid a window that is not constant has
\* n^2*variance >= n-1, that is std >= 0.3 grid steps >= 0.003, so the test
\* is the test for a constant window.
StdBelowEps(w) == VarN2(w) = 0

\* np.std(recent) > 0.5 * tol
StdAboveHalfTol(w, tol) == 4 * VarN2(w) > tol * tol * Len(w) * Len(w)

\* abs(np.mean(recent) - nominal) > 1.5 * tol
MeanShifted(w, nominal, tol) == 2 * Abs(SumSeq(w) - Len(w) * nominal) > 3 * tol * Len(w)

\* any(abs(recent[i] - recent[i-1]) > 2 * tol for i in range(1, len(recent)))
LargeDelta(w, tol) == \E i \in 2..Len(w) : Abs(w[i] - w[i - 1]) > 2 * tol

---------------------------------------------------------------------------
(* SensorSimulator *)

Nominal(s) == (SENSORS[s].nominal * PerTen[s]) \div 10

Tol(s) == (SENSORS[s].tol * PerTen[s]) \div 10

\* self.noise_level = 0.005 * abs(self.nominal) + 0.1
NoiseLevel(s) == ((5 * Abs(SENSORS[s].nominal) + 100) * PerTen[s]) \div 10000

NoValue == <<>>

NewSensor(s) ==
    [id |-> s, nominal |-> Nominal(s), tol |-> Tol(s), time |-> 0,
     value |-> Nominal(s), noise_level |-> NoiseLevel(s),
     forced_fault |-> "None", drift_rate |-> 0, stuck_value |-> NoValue,
     last_values |-> <<>>]

\* deque(maxlen=10).append
DequeAppend(w, v) ==
    IF Len(w) < WINDOW_LEN THEN Append(w, v) ELSE Append(Tail(w), v)

\* random.gauss(0, sigma) for the draw z of the stream
Gauss(z, sigma) == z * sigma

\* A variant of line 61 that tests the value's truth ("if self.stuck_value:"):
\* a latched 0.0 does not freeze the sensor.
StuckTruthy(sensor) == sensor.stuck_value # NoValue /\ sensor.stuck_value[1] # 0

\* if self.stuck_value is not None
StuckFirst(sensor) == sensor.stuck_value # NoValue

\* The perturbation of the forced fault mode, applied to the value that
\* already holds nominal + drift + noise.
FaultValue(sensor, noisy, draw) ==
    CASE sensor.forced_fault = "spike" -> noisy + draw.spike * sensor.tol
      [] sensor.forced_fault = "noisy" -> noisy + Gauss(draw.z2, 3 * sensor.noise_level)
      [] sensor.forced_fault = "out_of_range" ->
             sensor.nominal + OUT_OF_RANGE_FACTOR * sensor.tol
      [] OTHER -> noisy

\* SensorSimulator.step(dt): the sensor after the call; the value returned
\* is the new sensor's field value.
step(sensor, dt, draw) ==
    LET t == sensor.time + dt IN
    IF StuckFirst(sensor)
    THEN [sensor EXCEPT !.time = t,
                        !.value = sensor.stuck_value[1],
                        !.last_values = DequeAppend(@, sensor.stuck_value[1])]
    ELSE LET noisy == sensor.nominal + sensor.drift_rate * t
                          + Gauss(draw.z, sensor.noise_level)
             value == FaultValue(sensor, noisy, draw)
         IN [sensor EXCEPT
                !.time = t,
                !.value = value,
                !.drift_rate = IF sensor.forced_fault = "drift"
                               THEN sensor.tol \div 10 ELSE @,
                !.stuck_value = IF sensor.forced_fault = "stuck"
                                THEN <<sensor.nominal>> ELSE @,
                !.last_values = DequeAppend(@, value)]

\* A variant of reset_faults that leaves the latched value in place.
reset_faults_keeps_stuck(sensor) ==
    [sensor EXCEPT !.forced_fault = "None", !.drift_rate = 0]

\* SensorSimulator.reset_faults()
reset_faults(sensor) ==
    [sensor EXCEPT !.forced_fault = "None", !.drift_rate = 0, !.stuck_value = NoValue]

\* A variant of the injection that starts the new mode from a clean sensor.
set_forced_fault_clears(sensor, fault_type) ==
    [sensor EXCEPT !.forced_fault = fault_type, !.stuck_value = NoValue]

\* sensor.forced_fault = fault_type (apply_fault, a mode other than "none")
set_forced_fault(sensor, fault_type) ==
    [sensor EXCEPT !.forced_fault = fault_type]

---------------------------------------------------------------------------
(* bite_check *)

Recent(sensor, value) ==
    IF sensor.last_values = <<>> THEN <<value>> ELSE sensor.last_values

OutOfRange(sensor, value) ==
    Abs(value - sensor.nominal) > RANGE_FACTOR * sensor.tol

\* A variant of the stuck test without the minimum sample count.
StuckAnyLength(recent) == StdBelowEps(recent)

\* len(recent) >= 6 and np.std(recent) < 1e-6
Stuck(recent) == Len(recent) >= STUCK_MIN_SAMPLES /\ StdBelowEps(recent)

\* A variant of bite_check that tests for a stuck sensor before the range.
bite_check_stuck_first(sensor, value) ==
    LET recent == Recent(sensor, value) IN
    IF Stuck(recent) THEN "E03"
    ELSE IF OutOfRange(sensor, value) THEN "E01"
    ELSE IF StdAboveHalfTol(recent, sensor.tol) THEN "E05"
    ELSE IF MeanShifted(recent, sensor.nominal, sensor.tol) THEN "E04"
    ELSE IF LargeDelta(recent, sensor.tol) THEN "E02"
    ELSE "OK"

\* A variant of bite_check that looks for large deltas right after the range.
bite_check_delta_first(sensor, value) ==
    LET recent == Recent(sensor, value) IN
    IF OutOfRange(sensor, value) THEN "E01"
    ELSE IF LargeDelta(recent, sensor.tol) THEN "E02"
    ELSE IF Stuck(recent) THEN "E03"
    ELSE IF StdAboveHalfTol(recent, sensor.tol) THEN "E05"
    ELSE IF MeanShifted(recent, sensor.nominal, sensor.tol) THEN "E04"
    ELSE "OK"

bite_check(sensor, value) ==
    LET recent == Recent(sensor, value) IN
    IF OutOfRange(sensor, value) THEN "E01"
    ELSE IF Stuck(recent) THEN "E03"
    ELSE IF StdAboveHalfTol(recent, sensor.tol) THEN "E05"
    ELSE IF MeanShifted(recent, sensor.nominal, sensor.tol) THEN "E04"
    ELSE IF LargeDelta(recent, sensor.tol) THEN "E02"
    ELSE "OK"

---------------------------------------------------------------------------
(* The random stream *)

D(z, z2, spike) == [z |-> z, z2 |-> z2, spike |-> spike]

\* The streams the generator may produce; each repeats with its period.
\*   quiet: every draw is 0 (all noise identical)
\*   alt:   noise alternates between +sigma and -sigma, no spike
\*   mix:   noise of all three signs, spikes of both signs
\*   burst: one spike in eleven steps, with noise of the spike's sign
\*   tail:  a noise draw far beyond sigma
Seeds ==
    [quiet |-> << D(0, 0, 0) >>,
     alt   |-> << D(1, -1, 0), D(-1, 1, 0) >>,
     mix   |-> << D(1, 0, 0), D(0, 1, 5), D(-1, -1, 0), D(-1, 1, 0),
                  D(1, -1, -5), D(0, 0, 0), D(1, 1, 0) >>,
     burst |-> << D(-1, 0, 0), D(1, 1, 5), D(-1, 0, 0), D(1, 0, 0), D(0, 0, 0),
                  D(-1, 0, 0), D(1, 0, 0), D(1, 0, 0), D(-1, 0, 0), D(0, 0, 0),
                  D(1, 0, 0) >>,
     tail  |-> << D(25, 0, 0), D(-1, 1, 0), D(0, 0, 0), D(1, -1, 0), D(70, 0, 0) >>]

SeedNames == DOMAIN Seeds

\* The draws one call of step reads, and the generator after it.
Draw(g) == Seeds[g.seed][g.pos]

Advance(g) == [g EXCEPT !.pos = (g.pos % Len(Seeds[g.seed])) + 1]

\* Every baseline noise draw of the seed is within one sigma (noise_level).
NoiseBounded(seed) ==
    \A i \in 1..Len(Seeds[seed]) : Abs(Seeds[seed][i].z) <= 1

---------------------------------------------------------------------------
(* State shared by the specifications *)

NoApp == [running |-> FALSE, scheduled |-> FALSE, start_time |-> 0, last_update |-> 0]

NoLog == [exists |-> FALSE, rows |-> <<>>]

NoTick == [processed |-> {}, failed |-> FALSE]

NoHist ==
    [focus |-> "S1", steps |-> 0, cmds |-> 0, ticks |-> 0, bites |-> 0,
     since_stuck |-> -1, since_reset |-> -1, only_spike |-> TRUE,
     reset_from |-> "NA",
     cls_tick_nonok |-> 0, cls_tick_ok |-> 0, cls_bite_nonok |-> 0, cls_bite_ok |-> 0,
     io_errors_ok |-> 0, io_errors_nonok |-> 0]

Bump(n) == IF n < 0 THEN n ELSE n + 1

---------------------------------------------------------------------------
(* SensorSimulator with bite_check after every step, one sensor at a time *)

\* Seconds between two steps when one sensor is driven alone.
SampleDts == {1}

InitSensor ==
    /\ sensors = [s \in SensorIds |-> NewSensor(s)]
    /\ data_buffers = [s \in SensorIds |-> <<>>]
    /\ log_csv = NoLog
    /\ app = NoApp
    /\ now = 0
    /\ rng \in {[seed |-> sd, pos |-> 1] : sd \in SeedNames}
    /\ last_code = [s \in SensorIds |-> "NA"]
    /\ tick = NoTick
    /\ hist \in {[NoHist EXCEPT !.focus = s] : s \in SensorIds}
    /\ op = [name |-> "new", sensor |-> hist.focus]

\* val = s.step(dt); code, details = bite_check(s, val)
SensorStep(s, dt) ==
    /\ hist.steps < MaxSteps
    /\ sensors' = [sensors EXCEPT ![s] = step(@, dt, Draw(rng))]
    /\ rng' = Advance(rng)
    /\ last_code' = [last_code EXCEPT ![s] = bite_check(sensors'[s], sensors'[s].value)]
    /\ hist' = [hist EXCEPT !.steps = @ + 1,
                            !.since_stuck = Bump(@),
                            !.since_reset = Bump(@)]
    /\ op' = [name |-> "step", sensor |-> s]
    /\ UNCHANGED <<data_buffers, log_csv, app, now, tick>>

\* sensor.forced_fault = fault_type
SensorInject(s, fault_type) ==
    /\ hist.cmds < MaxCmds
    /\ fault_type # "none"
    /\ sensors' = [sensors EXCEPT ![s] = set_forced_fault(@, fault_type)]
    /\ hist' = [hist EXCEPT !.cmds = @ + 1,
                            !.since_stuck = IF fault_type = "stuck" THEN 0 ELSE -1,
                            !.since_reset = -1,
                            !.only_spike = @ /\ fault_type = "spike"]
    /\ op' = [name |-> "inject", sensor |-> s]
    /\ UNCHANGED <<data_buffers, log_csv, app, now, rng, last_code, tick>>

\* sensor.reset_faults()
SensorReset(s) ==
    /\ hist.cmds < MaxCmds
    /\ sensors' = [sensors EXCEPT ![s] = reset_faults(@)]
    /\ hist' = [hist EXCEPT !.cmds = @ + 1, !.since_stuck = -1, !.since_reset = 0,
                            !.reset_from = last_code[s]]
    /\ op' = [name |-> "reset", sensor |-> s]
    /\ UNCHANGED <<data_buffers, log_csv, app, now, rng, last_code, tick>>

NextSensor ==
    \/ \E dt \in SampleDts : SensorStep(hist.focus, dt)
    \/ \E f \in FaultChoices : SensorInject(hist.focus, f)
    \/ SensorReset(hist.focus)

SpecSensor == InitSensor /\ [][NextSensor]_vars

---------------------------------------------------------------------------
(* bite_check as a function of its arguments alone *)

\* Windows the classifier is called with: n samples around nominal + a, with
\* the first k at nominal + b (Block), every second one at nominal + b (Comb)
\* or samples k and k+1 at a - h and a + h (Dipole).
Block(s, a, b, n, k) == [i \in 1..n |-> Nominal(s) + (IF i <= k THEN b ELSE a)]

Comb(s, a, b, n) == [i \in 1..n |-> Nominal(s) + (IF i % 2 = 0 THEN b ELSE a)]

Dipole(s, a, h, n, k) ==
    [i \in 1..n |-> Nominal(s) + (IF i = k THEN a - h ELSE IF i = k + 1 THEN a + h ELSE a)]

\* Offsets from nominal of the samples and of the value classified.
Levels(s) == {0, 1, 2 * Tol(s), -2 * Tol(s), RANGE_FACTOR * Tol(s) + 1}

ValueLevels(s) ==
    {0, 2 * Tol(s), RANGE_FACTOR * Tol(s), RANGE_FACTOR * Tol(s) + 1,
     -(RANGE_FACTOR * Tol(s)) - 1}

Windows(s) ==
    {Block(s, a, b, n, k) : a \in Levels(s), b \in Levels(s), n \in 0..WINDOW_LEN,
                             k \in 0..WINDOW_LEN}
    \cup {Comb(s, a, b, n) : a \in Levels(s), b \in Levels(s), n \in 0..WINDOW_LEN}
    \cup {Dipole(s, a, Tol(s) + 1, n, k) : a \in {0, 1}, n \in 2..WINDOW_LEN, k \in {1, 5}}

InitBite ==
    /\ \E s \in SensorIds : \E w \in Windows(s) :
          /\ sensors = [x \in SensorIds |->
                           IF x = s THEN [NewSensor(x) EXCEPT !.last_values = w]
                           ELSE NewSensor(x)]
          /\ hist = [NoHist EXCEPT !.focus = s]
    /\ data_buffers = [s \in SensorIds |-> <<>>]
    /\ log_csv = NoLog
    /\ app = NoApp
    /\ now = 0
    /\ rng = [seed |-> "quiet", pos |-> 1]
    /\ last_code = [s \in SensorIds |-> "NA"]
    /\ tick = NoTick
    /\ op = [name |-> "new", sensor |-> hist.focus, value |-> 0]

\* code, details = bite_check(sensor, value)
BiteCall(s, value) ==
    /\ last_code' = [last_code EXCEPT ![s] = bite_check(sensors[s], value)]
    /\ op' = [name |-> "bite_check", sensor |-> s, value |-> value]
    /\ UNCHANGED <<sensors, data_buffers, log_csv, app, now, rng, tick, hist>>

NextBite ==
    \E v \in ValueLevels(hist.focus) : BiteCall(hist.focus, Nominal(hist.focus) + v)

SpecBite == InitBite /\ [][NextBite]_vars

---------------------------------------------------------------------------
(* The fault log *)

\* append_log_csv(row): the header is written when the file does not exist.
append_log_csv(file, row) ==
    [exists |-> TRUE,
     rows   |-> IF file.exists THEN Append(file.rows, row)
                ELSE <<Header, row>>]

\* The row log_bite writes, reduced to its sensor_id and code columns.
Row(sensor, code) == <<sensor.id, code>>

\* AvionicsMonitorApp.__init__, "Ensure log file exists"
ensure_log_exists(file) ==
    IF file.exists THEN file ELSE [exists |-> TRUE, rows |-> <<>>]

Records(file) == SelectSeq(file.rows, LAMBDA r : r # Header)

Headers(file) == SelectSeq(file.rows, LAMBDA r : r = Header)

OkRecords(file) == SelectSeq(file.rows, LAMBDA r : r # Header /\ r[2] = "OK")

---------------------------------------------------------------------------
(* AvionicsMonitorApp *)

\* Seconds between two update_loop calls (wall clock, never negative).
TickDts == {0, 30, 31}

\* A variant of the eviction loop that never pops.
EvictNever(buffer, t) == buffer

\* while buffer and (t - buffer[0][0]) > PLOT_WINDOW_SEC: buffer.popleft()
RECURSIVE Evict(_, _)
Evict(buffer, t) ==
    IF buffer # <<>> /\ (t - buffer[1][1]) > PLOT_WINDOW_SEC
    THEN Evict(Tail(buffer), t)
    ELSE buffer

\* A variant of update_loop that logs every classification.
TickLogsAlways(code) == TRUE

\* update_loop: "if code != 'OK': self.log_bite(...)"
TickLogs(code) == code # "OK"

\* run_bite_all calls log_bite for every classification it makes
BiteLogs(code) == TRUE

\* What a loop over the roster carries from one sensor to the next.
LoopState ==
    [sensors |-> sensors, data_buffers |-> data_buffers, log_csv |-> log_csv,
     rng |-> rng, last_code |-> last_code, hist |-> hist,
     processed |-> {}, failed |-> FALSE]

\* log_bite(sensor, code, details, value): append_log_csv raises when the
\* file cannot be written (io_fail), and the exception leaves the loop.
log_bite(st, sensor, code, io_fail) ==
    IF io_fail
    THEN [st EXCEPT !.failed = TRUE,
                    !.hist.io_errors_ok = @ + (IF code = "OK" THEN 1 ELSE 0),
                    !.hist.io_errors_nonok = @ + (IF code = "OK" THEN 0 ELSE 1)]
    ELSE [st EXCEPT !.log_csv = append_log_csv(@, Row(sensor, code))]

\* The body of update_loop's "for s in self.sensors" for one sensor.
SampleOne(st, s, dt, t, io_fail) ==
    LET sensor == step(st.sensors[s], dt, Draw(st.rng))
        val    == sensor.value
        buffer == Evict(Append(st.data_buffers[s], <<t, val>>), t)
        code   == bite_check(sensor, val)
        st1    == [st EXCEPT !.sensors[s] = sensor,
                             !.rng = Advance(@),
                             !.data_buffers[s] = buffer,
                             !.last_code[s] = code,
                             !.processed = @ \cup {s},
                             !.hist.cls_tick_nonok = @ + (IF code = "OK" THEN 0 ELSE 1),
                             !.hist.cls_tick_ok = @ + (IF code = "OK" THEN 1 ELSE 0)]
    IN IF TickLogs(code) THEN log_bite(st1, sensor, code, io_fail) ELSE st1

RECURSIVE SampleFrom(_, _, _, _, _)
SampleFrom(st, i, dt, t, io_fail) ==
    IF i > Len(Roster) \/ st.failed THEN st
    ELSE SampleFrom(SampleOne(st, Roster[i], dt, t, io_fail), i + 1, dt, t, io_fail)

\* The body of run_bite_all's loop for one sensor.
BiteOne(st, s, io_fail) ==
    LET buff == st.data_buffers[s] IN
    IF buff = <<>> THEN st
    ELSE LET latest == buff[Len(buff)][2]
             code   == bite_check(st.sensors[s], latest)
             st1    == [st EXCEPT !.last_code[s] = code,
                                  !.processed = @ \cup {s},
                                  !.hist.cls_bite_nonok = @ + (IF code = "OK" THEN 0 ELSE 1),
                                  !.hist.cls_bite_ok = @ + (IF code = "OK" THEN 1 ELSE 0)]
         IN IF BiteLogs(code) THEN log_bite(st1, st.sensors[s], code, io_fail) ELSE st1

RECURSIVE BiteFrom(_, _, _)
BiteFrom(st, i, io_fail) ==
    IF i > Len(Roster) \/ st.failed THEN st
    ELSE BiteFrom(BiteOne(st, Roster[i], io_fail), i + 1, io_fail)

\* The streams the application is run with.
AppSeeds == {"alt", "tail"}

\* The fault types the operator picks while the application runs (the fault
\* modes themselves are exercised one sensor at a time under SpecSensor).
AppFaultChoices == {"none", "out_of_range"}

Init ==
    /\ sensors = [s \in SensorIds |-> NewSensor(s)]
    /\ data_buffers = [s \in SensorIds |-> <<>>]
    /\ log_csv = NoLog
    /\ app = NoApp
    /\ now = 1
    /\ rng \in {[seed |-> sd, pos |-> 1] : sd \in AppSeeds}
    /\ last_code = [s \in SensorIds |-> "NA"]
    /\ tick = NoTick
    /\ hist = NoHist
    /\ op = [name |-> "none", sensor |-> "S1"]

\* AvionicsMonitorApp.__init__ in a new process
Start ==
    /\ ~app.running
    /\ sensors' = [s \in SensorIds |-> NewSensor(s)]
    /\ data_buffers' = [s \in SensorIds |-> <<>>]
    /\ log_csv' = ensure_log_exists(log_csv)
    /\ app' = [running |-> TRUE, scheduled |-> TRUE, start_time |-> now, last_update |-> now]
    /\ last_code' = [s \in SensorIds |-> "NA"]
    /\ tick' = NoTick
    /\ op' = [name |-> "start", sensor |-> "S1"]
    /\ UNCHANGED <<now, rng, hist>>

\* The window is closed: root.mainloop() returns and the process ends.
Close ==
    /\ app.running
    /\ app' = [app EXCEPT !.running = FALSE, !.scheduled = FALSE]
    /\ op' = [name |-> "close", sensor |-> "S1"]
    /\ UNCHANGED <<sensors, data_buffers, log_csv, now, rng, last_code, tick, hist>>

\* AvionicsMonitorApp.apply_fault with sensor s and fault type f selected
ApplyFault(s, f) ==
    /\ app.running
    /\ hist.cmds < MaxAppCmds
    /\ sensors' = [sensors EXCEPT ![s] = IF f = "none" THEN reset_faults(@)
                                         ELSE set_forced_fault(@, f)]
    /\ hist' = [hist EXCEPT !.cmds = @ + 1]
    /\ op' = [name |-> "apply_fault", sensor |-> s]
    /\ UNCHANGED <<data_buffers, log_csv, app, now, rng, last_code, tick>>

\* AvionicsMonitorApp.clear_faults
ClearFaults ==
    /\ app.running
    /\ hist.cmds < MaxAppCmds
    /\ sensors' = [s \in SensorIds |-> reset_faults(sensors[s])]
    /\ hist' = [hist EXCEPT !.cmds = @ + 1]
    /\ op' = [name |-> "clear_faults", sensor |-> "S1"]
    /\ UNCHANGED <<data_buffers, log_csv, app, now, rng, last_code, tick>>

\* AvionicsMonitorApp.run_bite_all
RunBiteAll(io_fail) ==
    /\ app.running
    /\ hist.bites < MaxBites
    /\ LET st == BiteFrom([LoopState EXCEPT !.hist.bites = @ + 1], 1, io_fail) IN
          /\ log_csv' = st.log_csv
          /\ last_code' = st.last_code
          /\ hist' = st.hist
          /\ tick' = [processed |-> st.processed, failed |-> st.failed]
    /\ op' = [name |-> "run_bite_all", sensor |-> "S1"]
    /\ UNCHANGED <<sensors, data_buffers, app, now, rng>>

\* AvionicsMonitorApp.update_loop, dt seconds after the last one
Tick(dt, io_fail) ==
    /\ app.running
    /\ app.scheduled
    /\ hist.ticks < MaxTicks
    /\ now' = now + dt
    /\ LET step_dt == IF app.last_update # 0 THEN now' - app.last_update ELSE 0
           st == SampleFrom([LoopState EXCEPT !.hist.ticks = @ + 1], 1, step_dt,
                            now' - app.start_time, io_fail)
       IN /\ sensors' = st.sensors
          /\ data_buffers' = st.data_buffers
          /\ log_csv' = st.log_csv
          /\ rng' = st.rng
          /\ last_code' = st.last_code
          /\ hist' = st.hist
          /\ tick' = [processed |-> st.processed, failed |-> st.failed]
    /\ app' = [app EXCEPT !.scheduled = TRUE, !.last_update = now']
    /\ op' = [name |-> "update_loop", sensor |-> "S1"]

Next ==
    \/ Start
    \/ Close
    \/ \E s \in SensorIds, f \in AppFaultChoices : ApplyFault(s, f)
    \/ ClearFaults
    \/ \E io_fail \in BOOLEAN : RunBiteAll(io_fail)
    \/ \E dt \in SampleDts, io_fail \in BOOLEAN : Tick(dt, io_fail)

Spec == Init /\ [][Next]_vars

\* The application sampled at irregular times, no operator command.
NextClock ==
    \/ Start
    \/ Close
    \/ \E dt \in TickDts, io_fail \in BOOLEAN : Tick(dt, io_fail)

SpecClock == Init /\ [][NextClock]_vars

---------------------------------------------------------------------------
(* Properties *)

Focus == sensors[hist.focus]

FocusCode == last_code[hist.focus]

Constant(w) == \A i \in 1..Len(w) : w[i] = w[1]

\* Six or more consecutive samples of the window are identical.
SixIdentical(w) ==
    \E i \in 1..(Len(w) - STUCK_MIN_SAMPLES + 1) :
        \A j \in i..(i + STUCK_MIN_SAMPLES - 1) : w[j] = w[i]

\* The window holds a sample that a +/-5*tol spike produced.
HasSpike(sensor) ==
    \E i \in 1..Len(sensor.last_values) :
        Abs(sensor.last_values[i] - sensor.nominal) >= (RANGE_FACTOR - 1) * sensor.tol

\* C1: whenever |value - nominal| > 5*tol, bite_check returns E01, whatever
\* the sensor's recent window holds.  (SpecBite)
C1_OutOfRangeWins ==
    (op.name = "bite_check"
        /\ Abs(op.value - Nominal(op.sensor)) > RANGE_FACTOR * Tol(op.sensor))
    => last_code[op.sensor] = "E01"

\* C1 witness: an out-of-range value classified E01 although the window holds
\* six or more identical samples, which the stuck test would report.
C1_Witness ==
    /\ op.name = "bite_check"
    /\ Abs(op.value - Nominal(op.sensor)) > RANGE_FACTOR * Tol(op.sensor)
    /\ Len(Focus.last_values) >= STUCK_MIN_SAMPLES
    /\ Constant(Focus.last_values)
    /\ FocusCode = "E01"

\* C7: bite_check never returns E03 for a window of fewer than 6 samples, and
\* an empty window is classified as the one-sample window <<value>>: E01 when
\* the value is out of range, E04 when it is more than 1.5*tol from nominal,
\* OK otherwise.  (SpecBite)
C7_NoStuckBelowSix ==
    op.name = "bite_check" =>
        LET w == Focus.last_values
            d == Abs(op.value - Focus.nominal)
        IN /\ Len(w) < STUCK_MIN_SAMPLES => FocusCode # "E03"
           /\ w = <<>> =>
                FocusCode = (IF d > RANGE_FACTOR * Focus.tol THEN "E01"
                             ELSE IF 2 * d > 3 * Focus.tol THEN "E04" ELSE "OK")

\* C7 witness: five identical samples and a value in range, classified OK.
C7_Witness ==
    /\ op.name = "bite_check"
    /\ Len(Focus.last_values) = STUCK_MIN_SAMPLES - 1
    /\ Constant(Focus.last_values)
    /\ Abs(op.value - Focus.nominal) <= RANGE_FACTOR * Focus.tol
    /\ FocusCode = "OK"

\* C3 as stated: with the stuck fault injected, stuck_value = nominal after
\* one step, every later step returns nominal, and the classification
\* after 6 steps from the injection is E03.  (SpecSensor)
C3_StuckAfterSix ==
    /\ hist.since_stuck >= 1 => Focus.stuck_value = <<Focus.nominal>>
    /\ hist.since_stuck >= 2 => Focus.value = Focus.nominal
    /\ hist.since_stuck = STUCK_MIN_SAMPLES => FocusCode = "E03"

\* C3 as amended: with the stuck fault injected, stuck_value = nominal after
\* one step, every later step returns nominal, and from the 11th step after
\* the injection on (one latching step, then a window of ten frozen samples)
\* the classification is E03.  (SpecSensor)
C3_StuckAfterEleven ==
    /\ hist.since_stuck >= 1 => Focus.stuck_value = <<Focus.nominal>>
    /\ hist.since_stuck >= 2 => Focus.value = Focus.nominal
    /\ hist.since_stuck >= WINDOW_LEN + 1 => FocusCode = "E03"

\* C3 witness: eleven steps after a stuck injection that found samples in the
\* window, the classification is E03.
C3_Witness ==
    /\ hist.since_stuck >= WINDOW_LEN + 1
    /\ hist.steps > hist.since_stuck
    /\ Focus.forced_fault = "stuck"
    /\ FocusCode = "E03"

\* C6: reset_faults() leaves forced_fault None, drift_rate 0 and stuck_value
\* None, and with no fault injected since, from the 10th step after it on the
\* classification is OK, when the noise stays within noise_level and is not
\* identical over six or more consecutive samples.  (SpecSensor)
C6_ResetRecovers ==
    /\ hist.since_reset >= 0 =>
          /\ Focus.forced_fault = "None"
          /\ Focus.drift_rate = 0
          /\ Focus.stuck_value = NoValue
    /\ (hist.since_reset >= WINDOW_LEN
           /\ NoiseBounded(rng.seed)
           /\ ~SixIdentical(Focus.last_values))
       => FocusCode = "OK"

\* C6 witness: ten steps after a reset made while the sensor was classified
\* faulty, the classification is OK.
C6_Witness ==
    /\ hist.since_reset >= WINDOW_LEN
    /\ hist.reset_from \notin {"OK", "NA"}
    /\ NoiseBounded(rng.seed)
    /\ ~SixIdentical(Focus.last_values)
    /\ FocusCode = "OK"

\* C8 as stated: once stuck_value is set, every step returns it and it stays
\* set until reset_faults(), whatever other fault mode is injected; the step
\* that latches it returns nominal plus noise.  (SpecSensor)
C8_LatchReturnsNominalPlusNoise ==
    [][ /\ (Focus.stuck_value # NoValue /\ op'.name # "reset")
            => Focus'.stuck_value = Focus.stuck_value
        /\ (Focus.stuck_value # NoValue /\ op'.name = "step")
            => Focus'.value = Focus.stuck_value[1]
        /\ (Focus.stuck_value = NoValue /\ Focus'.stuck_value # NoValue)
            => /\ op'.name = "step"
               /\ Focus'.value = Focus.nominal + Gauss(Draw(rng).z, Focus.noise_level)
      ]_vars

\* C8 as amended: once stuck_value is set, every step returns it and it stays
\* set until reset_faults(), whatever other fault mode is injected; the step
\* that latches it returns the unfrozen value nominal + drift_rate*time +
\* noise (the drift term stays when drift was injected before).  (SpecSensor)
C8_StuckHolds ==
    [][ /\ (Focus.stuck_value # NoValue /\ op'.name # "reset")
            => Focus'.stuck_value = Focus.stuck_value
        /\ (Focus.stuck_value # NoValue /\ op'.name = "step")
            => Focus'.value = Focus.stuck_value[1]
        /\ (Focus.stuck_value = NoValue /\ Focus'.stuck_value # NoValue)
            => /\ op'.name = "step"
               /\ Focus'.value = Focus.nominal + Focus.drift_rate * Focus'.time
                                   + Gauss(Draw(rng).z, Focus.noise_level)
      ]_vars

\* C8 witness: a step returned the latched value while another fault mode
\* was the forced one.
C8_Witness ==
    /\ op.name = "step"
    /\ Focus.stuck_value # NoValue
    /\ Focus.forced_fault \in {"spike", "noisy", "drift", "out_of_range"}
    /\ Focus.value = Focus.stuck_value[1]

\* C10: with no fault other than spike ever injected and noise within
\* noise_level, no step is classified E02, and a window that holds a spike
\* sample is never classified OK.  (SpecSensor)
C10_SpikeNeverIntermittent ==
    (hist.only_spike /\ NoiseBounded(rng.seed)) =>
        /\ FocusCode # "E02"
        /\ (op.name = "step" /\ HasSpike(Focus)) => FocusCode \in {"E01", "E03", "E04", "E05"}

\* C10 witness: a full window with a spike sample and an adjacent delta above
\* 2*tol, classified E05.
C10_Witness ==
    /\ hist.only_spike
    /\ NoiseBounded(rng.seed)
    /\ Focus.forced_fault = "spike"
    /\ Len(Focus.last_values) = WINDOW_LEN
    /\ HasSpike(Focus)
    /\ LargeDelta(Focus.last_values, Focus.tol)
    /\ FocusCode = "E05"

\* C2: a log file that holds at least one record holds the header row exactly
\* once, as its first row.  (Spec)
C2_HeaderOnceFirst ==
    Len(Records(log_csv)) >= 1 =>
        /\ Len(Headers(log_csv)) = 1
        /\ log_csv.rows[1] = Header

\* C4 as stated: the records of the log are as many as the classifications
\* that were not OK, and no record has the code OK.  (Spec)
C4_OneRecordPerNonOk ==
    /\ Len(Records(log_csv)) = hist.cls_tick_nonok + hist.cls_bite_nonok
    /\ Len(OkRecords(log_csv)) = 0

\* C4 as amended: update_loop calls log_bite once for each classification
\* that is not OK and never for OK; run_bite_all calls it once for every
\* classification it makes, OK included; each call appends one record unless
\* append_log_csv raises.  (Spec)
C4_RecordsPerLogBite ==
    /\ Len(Records(log_csv)) - Len(OkRecords(log_csv))
          = hist.cls_tick_nonok + hist.cls_bite_nonok - hist.io_errors_nonok
    /\ Len(OkRecords(log_csv)) = hist.cls_bite_ok - hist.io_errors_ok

\* C4 witness: ticks classified both OK and not OK, and the log holds a
\* record with code OK that run_bite_all wrote.
C4_Witness ==
    /\ hist.cls_tick_ok >= 1
    /\ hist.cls_tick_nonok >= 1
    /\ Len(OkRecords(log_csv)) >= 1
    /\ Len(Records(log_csv)) > Len(OkRecords(log_csv))

\* C5: when one sensor's processing fails during a tick, the remaining
\* sensors are still stepped, buffered and classified in that tick, and the
\* next tick is scheduled.  (Spec)
C5_FailureIsolated ==
    (op.name = "update_loop" /\ tick.failed) =>
        /\ tick.processed = SensorIds
        /\ app.scheduled

Sorted(buffer) == \A i \in 1..(Len(buffer) - 1) : buffer[i][1] <= buffer[i + 1][1]

WithinWindow(buffer) ==
    \A i \in 1..Len(buffer) : buffer[Len(buffer)][1] - buffer[i][1] <= PLOT_WINDOW_SEC

\* C9: after every tick each sample buffer is ordered by non-decreasing time,
\* holds no sample more than PLOT_WINDOW_SEC behind its newest, and ends with
\* the sample of this tick for every sensor the tick processed.  (SpecClock)
C9_BufferWindow ==
    \A s \in SensorIds :
        /\ Sorted(data_buffers[s])
        /\ WithinWindow(data_buffers[s])
        /\ (op.name = "update_loop" /\ s \in tick.processed) =>
              /\ data_buffers[s] # <<>>
              /\ data_buffers[s][Len(data_buffers[s])]
                    = <<now - app.start_time, sensors[s].value>>

\* C9 witness: a tick evicted the sample of the tick before it, which was
\* more than PLOT_WINDOW_SEC old, and kept its own.
C9_Witness ==
    /\ op.name = "update_loop"
    /\ \E s \in tick.processed :
          /\ Len(sensors[s].last_values) >= 2
          /\ Len(data_buffers[s]) < Len(sensors[s].last_values)
          /\ data_buffers[s] # <<>>

=============================================================================
